---- MODULE Spec2Model ----
(***************************************************************************)
(* One Piece Hub API (src/main.py, src/schemas.py): the HTTP handlers over *)
(* the two store collections `episode` and `collection`.                   *)
(*                                                                         *)
(* Representation of Python values:                                        *)
(*   dict            a function from field names (strings) to values; a    *)
(*                   key that is not set is not in its DOMAIN              *)
(*   list            a sequence                                            *)
(*   Optional[T]     <<>> for None, <<v>> for the value v                  *)
(*   identifier str  a sequence of one-character strings                   *)
(*   ObjectId        [oid |-> its 24 lowercase hex digits]                 *)
(*   URL string      [scheme |-> s, rest |-> r] for the text "s://r"; a    *)
(*                   text without "://" has scheme ""                      *)
(*                                                                         *)
(* Each worker is one server process: a handler is an `async def` that     *)
(* never awaits, so within one process it runs to completion; handlers of  *)
(* different processes interleave between two store calls.                 *)
(***************************************************************************)
EXTENDS Integers, Sequences, FiniteSets, TLC

VARIABLES db, episode, collection, pc, count, resp, seedLog, episode0

vars == <<db, episode, collection, pc, count, resp, seedLog, episode0>>

\* ------------------------------------------------------------------ bounds

NumWorkers == 2
MaxSeedCalls == 2
MaxCollections == 1

Workers == 1..NumWorkers

\* ------------------------------------------------------------ identifiers

OidLen == 24

Rep(c, n) == [i \in 1..n |-> c]

Min(a, b) == IF a <= b THEN a ELSE b

Abs(n) == IF n < 0 THEN -n ELSE n

Take(s, n) == SubSeq(s, 1, Min(n, Len(s)))

HexDigits == <<"0", "1", "2", "3", "4", "5", "6", "7", "8", "9", "a", "b", "c", "d", "e", "f">>

HexLower == {HexDigits[i] : i \in 1..16}

HexUpper == {"A", "B", "C", "D", "E", "F"}

LowerChar(c) ==
    CASE c = "A" -> "a" [] c = "B" -> "b" [] c = "C" -> "c"
      [] c = "D" -> "d" [] c = "E" -> "e" [] c = "F" -> "f"
      [] OTHER -> c

\* ObjectId(eid) raises unless eid is 24 hexadecimal digits (either case).
ObjectIdAccepts(s) ==
    /\ Len(s) = OidLen
    /\ \A i \in 1..Len(s) : s[i] \in HexLower \cup HexUpper

\* ObjectId(eid): the 12 bytes, held as their lowercase hex digits.
ObjectId(s) == [oid |-> [i \in 1..Len(s) |-> LowerChar(s[i])]]

\* str(ObjectId): the 24 lowercase hex digits.
StrOid(o) == o.oid

\* The n-th identifier the store assigns on insert.
NewOid(n) == [oid |-> Rep("0", OidLen - 2) \o <<HexDigits[(n \div 16) + 1], HexDigits[(n % 16) + 1]>>]

\* -------------------------------------------------------------- documents

Has(d, k) == k \in DOMAIN d

None == <<>>

Some(v) == <<v>>

Url(s, r) == [scheme |-> s, rest |-> r]

WithId(fields, oid) == ("_id" :> oid) @@ fields

Fields(d) == [k \in DOMAIN d \ {"_id"} |-> d[k]]

FieldsOf(docs) == [i \in 1..Len(docs) |-> Fields(docs[i])]

StreamUrl == Url("https", "www.w3schools.com/html/mov_bbb.mp4")

demo ==
    << [ number |-> 1, season |-> 1,
         title |-> "I'm Luffy! The Man Who's Gonna Be King of the Pirates!",
         synopsis |-> "Luffy sets out to sea and meets Coby.",
         thumbnail_url |-> Url("https", "images.unsplash.com/photo-1545972152-7051e70f47c9?q=80&w=1200&auto=format&fit=crop"),
         poster_url |-> Url("https", "images.unsplash.com/photo-1520975922215-2305b8d0b7b6?q=80&w=1600&auto=format&fit=crop"),
         stream_url |-> StreamUrl, duration_minutes |-> 24,
         tags |-> <<"luffy", "east blue">>, is_featured |-> TRUE ],
       [ number |-> 2, season |-> 1,
         title |-> "Enter the Great Swordsman! Pirate Hunter Roronoa Zoro!",
         synopsis |-> "Luffy seeks out the famed swordsman.",
         thumbnail_url |-> Url("https", "images.unsplash.com/photo-1612036782180-6f0b6a9a8d2e?q=80&w=1200&auto=format&fit=crop"),
         poster_url |-> Url("https", "images.unsplash.com/photo-1522199710521-72d69614c702?q=80&w=1600&auto=format&fit=crop"),
         stream_url |-> StreamUrl, duration_minutes |-> 24,
         tags |-> <<"zoro", "east blue">>, is_featured |-> TRUE ],
       [ number |-> 3, season |-> 1,
         title |-> "Morgan versus Luffy! Who's the Mysterious Beautiful Young Girl?",
         synopsis |-> "The Straw Hats face Captain Morgan.",
         thumbnail_url |-> Url("https", "images.unsplash.com/photo-1606112219348-204d7d8b94ee?q=80&w=1200&auto=format&fit=crop"),
         poster_url |-> Url("https", "images.unsplash.com/photo-1520975922215-2305b8d0b7b6?q=80&w=1600&auto=format&fit=crop"),
         stream_url |-> StreamUrl, duration_minutes |-> 24,
         tags |-> <<"nami", "east blue">>, is_featured |-> FALSE ] >>

\* An insert that does nothing once the collection holds a document.
InsertManyIfEmpty(coll, docs, base) ==
    IF coll = <<>> THEN [i \in 1..Len(docs) |-> WithId(docs[i], NewOid(base + i - 1))] ELSE coll

\* insert_many(docs): the store gives each document the next identifier.
InsertMany(coll, docs, base) ==
    coll \o [i \in 1..Len(docs) |-> WithId(docs[i], NewOid(base + i - 1))]

\* Documents already in the store when the process starts: a schema-valid
\* episode carrying a field `id` of its own, and one that drifted from the schema.
LegacyEpisode ==
    WithId([ number |-> 4, title |-> "Luffy's Past! Enter Red-Haired Shanks!",
             tags |-> <<"luffy">>, is_featured |-> FALSE, id |-> <<"e", "p", "-", "4">> ], NewOid(0))

DriftedEpisode ==
    WithId([ number |-> 0, season |-> 1, title |-> "Untitled",
             tags |-> <<"zoro">>, is_featured |-> TRUE ], NewOid(1))

InitEpisodeStores == {<<>>, <<LegacyEpisode, DriftedEpisode>>}

\* ------------------------------------------------------------------ schemas

\* HttpUrl: an http or https scheme and a non-empty remainder.
IsHttpUrl(u) == u.scheme \in {"http", "https"} /\ u.rest # ""

Opt(a, k) == IF Has(a, k) THEN Some(a[k]) ELSE None

\* Episode(**a) raises ValidationError unless this holds.
EpisodeValid(a) ==
    /\ Has(a, "number") /\ a["number"] >= 1
    /\ Has(a, "season") => a["season"] >= 1
    /\ Has(a, "title")
    /\ \A k \in {"thumbnail_url", "poster_url", "stream_url"} : Has(a, k) => IsHttpUrl(a[k])
    /\ Has(a, "duration_minutes") => (a["duration_minutes"] >= 1 /\ a["duration_minutes"] <= 240)

\* Episode(**a): the declared fields only, defaults applied.
Episode(a) ==
    [ number |-> a["number"],
      season |-> IF Has(a, "season") THEN a["season"] ELSE 1,
      title |-> a["title"],
      synopsis |-> Opt(a, "synopsis"),
      thumbnail_url |-> Opt(a, "thumbnail_url"),
      poster_url |-> Opt(a, "poster_url"),
      stream_url |-> Opt(a, "stream_url"),
      duration_minutes |-> Opt(a, "duration_minutes"),
      tags |-> IF Has(a, "tags") THEN a["tags"] ELSE <<>>,
      is_featured |-> IF Has(a, "is_featured") THEN a["is_featured"] ELSE FALSE ]

\* The Collection schema on a dict: title required, cover_url None or an HttpUrl.
CollectionValid(a) ==
    /\ Has(a, "title")
    /\ (Has(a, "cover_url") /\ a["cover_url"] # None) => IsHttpUrl(a["cover_url"][1])

\* ------------------------------------------------------------------- store

\* `db is not None`: db is the handle imported from database.py, or None.
DbConfigured == db # "None"

\* A query document against one stored document: {"tags": {"$in": [...]}} and
\* {"is_featured": b}.
Matches(d, q) ==
    \A k \in DOMAIN q :
        /\ Has(d, k)
        /\ IF k = "tags"
           THEN \E i \in 1..Len(d[k]) : \E j \in 1..Len(q[k]["$in"]) : d[k][i] = q[k]["$in"][j]
           ELSE d[k] = q[k]

Find(coll, q) == SelectSeq(coll, LAMBDA d : Matches(d, q))

\* cursor.limit(n): 0 is no limit, a negative n is a single batch of |n|.
CursorLimit(docs, limit) == IF limit = 0 THEN docs ELSE Take(docs, Abs(limit))

\* db.list_collection_names(): a collection exists once it holds a document.
CollectionNames ==
    (IF Len(episode) > 0 THEN <<"episode">> ELSE <<>>)
        \o (IF Len(collection) > 0 THEN <<"collection">> ELSE <<>>)

\* The next identifier the store assigns: nothing is ever deleted.
NextOidIndex == Len(episode) + Len(collection)

\* create_document(name, data): one insert, returns the new identifier as a string.
CreateDocument(coll, data) == Append(coll, WithId(data, NewOid(NextOidIndex)))

\* ---------------------------------------------------------------- handlers
\* Each handler's response is [status, body, storeOps]: storeOps counts the
\* store calls the handler made before it answered.

Response(status, body, ops) == [status |-> status, body |-> body, storeOps |-> ops]

NotConfigured == Response(500, [detail |-> "Database not configured"], 0)

InternalServerError(ops) == Response(500, [detail |-> "Internal Server Error"], ops)

read_root == Response(200, [message |-> "One Piece Hub API is running"], 0)

EnvFlag(set) == IF set THEN "Set" ELSE "Not Set"

\* A handler that lets the exception out: the framework answers 500.
ListNamesRaises(base, e) == InternalServerError(1)

\* `except Exception as e:` around db.list_collection_names().
ListNamesFailed(base, e) ==
    Response(200, base @@ [ database |-> "Connected but Error: " \o Take(e, 50),
                            connection_status |-> "Connected",
                            collections |-> <<>> ], 1)

\* GET /test; listFails: db.list_collection_names() raises the exception e;
\* urlSet, nameSet: what os.getenv finds for DATABASE_URL and DATABASE_NAME.
\* The status marks that open each text in the source are left out.
TestDatabaseResult(listFails, e, urlSet, nameSet) ==
    LET base == [ backend |-> "Running",
                  database_url |-> EnvFlag(urlSet),
                  database_name |-> EnvFlag(nameSet) ]
    IN  IF DbConfigured
        THEN IF listFails
             THEN ListNamesFailed(base, e)
             ELSE Response(200, base @@ [ database |-> "Connected & Working",
                                          connection_status |-> "Connected",
                                          collections |-> Take(CollectionNames, 10) ], 1)
        ELSE Response(200, base @@ [ database |-> "Available but not initialized",
                                     connection_status |-> "Not Connected",
                                     collections |-> <<>> ], 0)

\* The identifier copied to `id` with `_id` left in place.
serialize_doc_keeps_id(doc) ==
    IF doc = <<>> THEN doc ELSE IF Has(doc, "_id") THEN ("id" :> StrOid(doc["_id"])) @@ doc ELSE doc

serialize_doc(doc) ==
    IF doc = <<>>
    THEN doc
    ELSE IF Has(doc, "_id")
         THEN [k \in (DOMAIN doc \ {"_id"}) \cup {"id"} |->
                 IF k = "id" THEN StrOid(doc["_id"]) ELSE doc[k]]
         ELSE doc

SerializeAll(docs) == [i \in 1..Len(docs) |-> serialize_doc(docs[i])]

\* The skip taken only above the size of the demo set.
SeedSkipsAboveDemo(c) == c > 3

\* `if count > 0: return {"seeded": False, ...}`
SeedSkips(c) == c > 0

\* `if tag:` is false for None and for the empty string.
TagSupplied(tag) == tag # None /\ tag[1] # ""

ListEpisodesQuery(tag, featured) ==
    (IF TagSupplied(tag) THEN "tags" :> ("$in" :> <<tag[1]>>) ELSE <<>>)
        @@ (IF featured # None THEN "is_featured" :> featured[1] ELSE <<>>)

\* The constructor arguments: every key of the serialized document but `id`.
EpisodeArgs(d) == [k \in DOMAIN d \ {"id"} |-> d[k]]

\* The documents that fail validation left out of the answer.
ListEpisodesBodySkipInvalid(items) ==
    LET ok == SelectSeq(items, LAMBDA d : EpisodeValid(EpisodeArgs(d)))
    IN  Response(200, [i \in 1..Len(ok) |-> Episode(EpisodeArgs(ok[i]))], 1)

\* The list comprehension of Episode(...): one ValidationError aborts it all.
ListEpisodesBody(items) ==
    IF \A i \in 1..Len(items) : EpisodeValid(EpisodeArgs(items[i]))
    THEN Response(200, [i \in 1..Len(items) |-> Episode(EpisodeArgs(items[i]))], 1)
    ELSE InternalServerError(1)

ListEpisodesResult(tag, featured, limit) ==
    IF ~DbConfigured
    THEN NotConfigured
    ELSE ListEpisodesBody(SerializeAll(CursorLimit(Find(episode, ListEpisodesQuery(tag, featured)), limit)))

\* The raw list without the check of db.
ListEpisodesRawUnguarded(limit) == Response(200, SerializeAll(CursorLimit(Find(episode, <<>>), limit)), 1)

ListEpisodesRawResult(limit) ==
    IF ~DbConfigured
    THEN NotConfigured
    ELSE Response(200, SerializeAll(CursorLimit(Find(episode, <<>>), limit)), 1)

ListCollectionsResult(limit) ==
    IF ~DbConfigured
    THEN NotConfigured
    ELSE Response(200, SerializeAll(CursorLimit(Find(collection, <<>>), limit)), 1)

\* The accepted ids appended as supplied, not as str(ObjectId(eid)).
ValidIdsAsSupplied(ids) == SelectSeq(ids, ObjectIdAccepts)

\* The loop over episode_ids: str(ObjectId(eid)) of each eid ObjectId accepts.
ValidIds(ids) ==
    LET kept == SelectSeq(ids, ObjectIdAccepts)
    IN  [i \in 1..Len(kept) |-> StrOid(ObjectId(kept[i]))]

\* payload.dict() with episode_ids replaced by valid_ids.
CollectionData(payload) == [payload EXCEPT !["episode_ids"] = ValidIds(payload["episode_ids"])]

CreateCollectionResult(payload) ==
    IF ~DbConfigured
    THEN NotConfigured
    ELSE Response(200, [id |-> StrOid(NewOid(NextOidIndex))], 1)

\* ------------------------------------------------------------------ inputs

Tags == {None, Some(""), Some("zoro")}

Featured == {None, Some(TRUE), Some(FALSE)}

Limits == {0, 1, 50}

RawLimits == {-1, 0, 1, 100}

NotAnId == <<"n", "o", "t", "-", "a", "n", "-", "i", "d">>

ValidLower == Rep("a", 23) \o <<"1">>

ValidUpper == Rep("A", 22) \o <<"b", "2">>

ShortHex == Rep("a", 23)

CreateCollectionRequest(ids, cover) ==
    [ title |-> "East Blue Saga", description |-> None, episode_ids |-> ids, cover_url |-> cover ]

Payloads ==
    { CreateCollectionRequest(<<NotAnId, ValidLower>>, Some(Url("https", "cdn.example.com/east-blue.png"))),
      CreateCollectionRequest(<<ValidUpper, ShortHex, ValidLower>>, Some(Url("", "not a url"))) }

ListErrors == {"localhost:27017: [Errno 111] Connection refused, Timeout: 30s, Topology Description: <unknown>"}

\* ----------------------------------------------------------------- actions

Answer(op, args, r) == [op |-> op, args |-> args] @@ r

Idle(w) == pc[w] = "idle"

\* A new request goes to the lowest idle worker: the processes are identical,
\* so which idle one serves a request is not observable.
Accepts(w) == Idle(w) /\ \A v \in Workers : v < w => ~Idle(v)

\* Seed calls that passed the configuration check: answered or between their
\* two store calls.
SeedsStarted == Len(seedLog) + Cardinality({w \in Workers : pc[w] = "seed_insert"})

Init ==
    /\ db \in {"None", "Database"}
    /\ episode \in InitEpisodeStores
    /\ episode0 = episode
    /\ collection = <<>>
    /\ pc = [w \in Workers |-> "idle"]
    /\ count = [w \in Workers |-> 0]
    /\ resp = Answer("none", <<>>, Response(0, <<>>, 0))
    /\ seedLog = <<>>

GetRoot(w) ==
    /\ Accepts(w)
    /\ resp' = Answer("read_root", <<>>, read_root)
    /\ UNCHANGED <<db, episode, collection, pc, count, seedLog, episode0>>

GetTest(w) ==
    /\ Accepts(w)
    /\ \E listFails \in BOOLEAN : \E e \in ListErrors : \E urlSet \in BOOLEAN : \E nameSet \in BOOLEAN :
          resp' = Answer("test_database", [listFails |-> listFails, urlSet |-> urlSet, nameSet |-> nameSet],
                         TestDatabaseResult(listFails, e, urlSet, nameSet))
    /\ UNCHANGED <<db, episode, collection, pc, count, seedLog, episode0>>

\* POST /seed up to the branch on count_documents({}).
PostSeedCount(w) ==
    /\ Accepts(w)
    /\ IF ~DbConfigured
       THEN /\ resp' = Answer("seed_demo", <<>>, NotConfigured)
            /\ UNCHANGED <<pc, count, seedLog>>
       ELSE /\ SeedsStarted < MaxSeedCalls
            /\ LET c == Len(episode)
               IN  IF SeedSkips(c)
                   THEN /\ resp' = Answer("seed_demo", <<>>,
                                      Response(200, [seeded |-> FALSE, message |-> "Episodes already exist"], 1))
                        /\ seedLog' = Append(seedLog, [seeded |-> FALSE, read |-> c])
                        /\ UNCHANGED <<pc, count>>
                   ELSE /\ pc' = [pc EXCEPT ![w] = "seed_insert"]
                        /\ count' = [count EXCEPT ![w] = c]
                        /\ UNCHANGED <<resp, seedLog>>
    /\ UNCHANGED <<db, episode, collection, episode0>>

\* POST /seed from insert_many(demo) to the return.
PostSeedInsert(w) ==
    /\ pc[w] = "seed_insert"
    /\ episode' = InsertMany(episode, demo, NextOidIndex)
    /\ resp' = Answer("seed_demo", <<>>, Response(200, [seeded |-> TRUE, count |-> Len(demo)], 2))
    /\ seedLog' = Append(seedLog, [seeded |-> TRUE, read |-> count[w]])
    /\ pc' = [pc EXCEPT ![w] = "idle"]
    /\ count' = [count EXCEPT ![w] = 0]
    /\ UNCHANGED <<db, collection, episode0>>

GetEpisodes(w) ==
    /\ Accepts(w)
    /\ \E tag \in Tags : \E featured \in Featured : \E limit \in Limits :
          resp' = Answer("list_episodes", [tag |-> tag, featured |-> featured, limit |-> limit],
                         ListEpisodesResult(tag, featured, limit))
    /\ UNCHANGED <<db, episode, collection, pc, count, seedLog, episode0>>

GetEpisodesRaw(w) ==
    /\ Accepts(w)
    /\ \E limit \in RawLimits :
          resp' = Answer("list_episodes_raw", [limit |-> limit], ListEpisodesRawResult(limit))
    /\ UNCHANGED <<db, episode, collection, pc, count, seedLog, episode0>>

GetCollections(w) ==
    /\ Accepts(w)
    /\ \E limit \in Limits :
          resp' = Answer("list_collections", [limit |-> limit], ListCollectionsResult(limit))
    /\ UNCHANGED <<db, episode, collection, pc, count, seedLog, episode0>>

PostCollections(w) ==
    /\ Accepts(w)
    /\ \E payload \in Payloads :
          /\ resp' = Answer("create_collection", [payload |-> payload], CreateCollectionResult(payload))
          /\ IF ~DbConfigured
             THEN UNCHANGED collection
             ELSE /\ Len(collection) < MaxCollections
                  /\ collection' = CreateDocument(collection, CollectionData(payload))
    /\ UNCHANGED <<db, episode, pc, count, seedLog, episode0>>

Step(w) ==
    \/ GetRoot(w)
    \/ GetTest(w)
    \/ PostSeedCount(w)
    \/ PostSeedInsert(w)
    \/ GetEpisodes(w)
    \/ GetEpisodesRaw(w)
    \/ GetCollections(w)
    \/ PostCollections(w)

Next == \E w \in Workers : Step(w)

Spec == Init /\ [][Next]_vars

\* Requests one after the other: a worker takes a step only while every other
\* worker is idle.
Alone(w) == \A v \in Workers \ {w} : Idle(v)

NextSeq ==
    \E w \in Workers :
        \/ Alone(w) /\ GetRoot(w)
        \/ Alone(w) /\ GetTest(w)
        \/ Alone(w) /\ PostSeedCount(w)
        \/ Alone(w) /\ PostSeedInsert(w)
        \/ Alone(w) /\ GetEpisodes(w)
        \/ Alone(w) /\ GetEpisodesRaw(w)
        \/ Alone(w) /\ GetCollections(w)
        \/ Alone(w) /\ PostCollections(w)

SpecSeq == Init /\ [][NextSeq]_vars

\* -------------------------------------------------------------- properties
\* A response to a read is compared with the store as it is now: every step
\* that changes the store also replaces resp.

Range(s) == {s[i] : i \in DOMAIN s}

Last(s) == s[Len(s)]

DataOps == {"seed_demo", "list_episodes", "list_episodes_raw", "list_collections", "create_collection"}

SeededCount == Cardinality({i \in 1..Len(seedLog) : seedLog[i].seeded})

\* C1: in a run without overlapping requests, /seed inserts exactly when the
\* count it read is 0 and answers {seeded: true, count: 3}; from an empty
\* episode collection the first call seeds, the collection then holds exactly
\* the 3 demo episodes, and every later call answers {seeded: false} and
\* inserts nothing.
C1_SeedTwiceInSequence ==
    /\ \A i \in 1..Len(seedLog) : seedLog[i].seeded <=> seedLog[i].read = 0
    /\ (resp.op = "seed_demo" /\ resp.status = 200 /\ resp.body.seeded) => resp.body.count = 3
    /\ (episode0 = <<>> /\ Len(seedLog) >= 1) =>
          /\ seedLog[1].seeded
          /\ FieldsOf(episode) = demo
          /\ \A i \in 2..Len(seedLog) : ~seedLog[i].seeded
    /\ (episode0 # <<>>) => (episode = episode0 /\ \A i \in 1..Len(seedLog) : ~seedLog[i].seeded)

C1_Witness ==
    /\ episode0 = <<>>
    /\ Len(seedLog) = 2
    /\ seedLog[1].seeded /\ ~seedLog[2].seeded
    /\ resp.op = "seed_demo" /\ resp.status = 200 /\ ~resp.body.seeded
    /\ Len(episode) = 3

\* C2: with no store configured every data endpoint answers 500 "Database not
\* configured" without a single store call and the store is left as it was,
\* while GET / and GET /test answer 200.
C2_UnconfiguredFailsFirst ==
    ~DbConfigured =>
        /\ episode = episode0 /\ collection = <<>> /\ seedLog = <<>>
        /\ \A w \in Workers : pc[w] = "idle"
        /\ resp.op \in DataOps =>
              /\ resp.status = 500
              /\ resp.storeOps = 0
              /\ resp.body = [detail |-> "Database not configured"]
        /\ resp.op \in {"read_root", "test_database"} => resp.status = 200 /\ resp.storeOps = 0

C2_Witness ==
    /\ ~DbConfigured
    /\ episode # <<>>
    /\ resp.op = "list_episodes_raw"
    /\ resp.status = 500

\* The stored episodes that match every filter the request supplied.
MatchingSupplied(tag, featured) ==
    SelectSeq(episode, LAMBDA d :
        /\ tag # None => (Has(d, "tags") /\ tag[1] \in Range(d["tags"]))
        /\ featured # None => (Has(d, "is_featured") /\ d["is_featured"] = featured[1]))

C4_LimitCaps ==
    (resp.op \in {"list_episodes", "list_episodes_raw", "list_collections"} /\ resp.status = 200) =>
        /\ Len(resp.body) <= (IF resp.args.limit < 0 THEN 0 ELSE resp.args.limit)
        /\ (resp.op = "list_episodes_raw" /\ Len(episode) <= resp.args.limit) => Len(resp.body) = Len(episode)
        /\ (resp.op = "list_collections" /\ Len(collection) <= resp.args.limit) => Len(resp.body) = Len(collection)

IsPrefix(s, t) == Len(s) <= Len(t) /\ SubSeq(t, 1, Len(s)) = s

\* The payload's fields other than episode_ids reach the stored document as given.
KeepsPayload(d, payload) ==
    /\ DOMAIN d = DOMAIN payload \cup {"_id"}
    /\ \A k \in DOMAIN payload \ {"episode_ids"} : d[k] = payload[k]

\* The latest create answered 200 {id} for the last stored collection.
AnswersLastInsert == Len(collection) >= 1 /\ resp.body.id = StrOid(Last(collection)["_id"])

\* A step that changes `collection` appends exactly one document.
CreateAppendsOne == collection' # collection => Len(collection') = Len(collection) + 1 /\ IsPrefix(collection, collection')

\* C5 as stated: the stored episode_ids are the supplied strings that are
\* syntactically valid identifiers, in order, as supplied.
C5_SuppliedSubsequence ==
    [][ /\ CreateAppendsOne
        /\ (resp.op = "create_collection" /\ resp.status = 200 =>
              /\ AnswersLastInsert
              /\ KeepsPayload(Last(collection), resp.args.payload)
              /\ Last(collection)["episode_ids"] = SelectSeq(resp.args.payload["episode_ids"], ObjectIdAccepts))' ]_vars

\* C5, amended: POST /collections on a configured store persists exactly one
\* document and answers 200 with its identifier; its episode_ids are, in
\* order, the lowercase hex rendering of every supplied id that is 24 hex
\* digits, whether or not such an episode exists; every other id is dropped.
C5_CanonicalSubsequence ==
    [][ /\ CreateAppendsOne
        /\ (resp.op = "create_collection" /\ resp.status = 200 =>
              /\ AnswersLastInsert
              /\ KeepsPayload(Last(collection), resp.args.payload)
              /\ LET kept == SelectSeq(resp.args.payload["episode_ids"],
                                       LAMBDA s : Len(s) = 24 /\ Range(s) \subseteq HexLower \cup HexUpper)
                 IN  Last(collection)["episode_ids"] =
                        [i \in 1..Len(kept) |-> [j \in 1..24 |-> LowerChar(kept[i][j])]])' ]_vars

C5_Witness ==
    /\ resp.op = "create_collection" /\ resp.status = 200
    /\ resp.args.payload["episode_ids"] = <<ValidUpper, ShortHex, ValidLower>>
    /\ Last(collection)["episode_ids"] = <<Rep("a", 22) \o <<"b", "2">>, ValidLower>>
    /\ \A i \in 1..Len(episode) : StrOid(episode[i]["_id"]) # ValidLower

\* The Episode schema on a returned Episode record.
EpisodeRecordValid(r) ==
    /\ r.number >= 1 /\ r.season >= 1
    /\ \A u \in {r.thumbnail_url, r.poster_url, r.stream_url} : u # None => IsHttpUrl(u[1])
    /\ r.duration_minutes # None => (r.duration_minutes[1] >= 1 /\ r.duration_minutes[1] <= 240)

\* C6: every record a list endpoint returns in a 200 response satisfies the
\* full schema of its entity type.
C6_ReturnedRecordsValid ==
    resp.status = 200 =>
        /\ resp.op = "list_episodes" => \A i \in 1..Len(resp.body) : EpisodeRecordValid(resp.body[i])
        /\ resp.op = "list_episodes_raw" => \A i \in 1..Len(resp.body) : EpisodeValid(EpisodeArgs(resp.body[i]))
        /\ resp.op = "list_collections" => \A i \in 1..Len(resp.body) : CollectionValid(resp.body[i])

\* C7: GET /test always answers 200 with the diagnostic object: without a
\* store `database` reports it is not initialized, and when listing the
\* collection names raises, `database` holds the error text (cut to 50
\* characters) and `collections` stays empty.
C7_TestNeverRaises ==
    resp.op = "test_database" =>
        /\ resp.status = 200
        /\ DOMAIN resp.body = {"backend", "database", "database_url", "database_name",
                               "connection_status", "collections"}
        /\ resp.body.database_url = (IF resp.args.urlSet THEN "Set" ELSE "Not Set")
        /\ resp.body.database_name = (IF resp.args.nameSet THEN "Set" ELSE "Not Set")
        /\ ~DbConfigured =>
              /\ resp.body.database = "Available but not initialized"
              /\ resp.body.connection_status = "Not Connected"
              /\ resp.body.collections = <<>>
        /\ (DbConfigured /\ resp.args.listFails) =>
              /\ \E e \in ListErrors :
                    /\ Len(e) > 50
                    /\ resp.body.database = "Connected but Error: " \o SubSeq(e, 1, 50)
              /\ resp.body.collections = <<>>
        /\ (DbConfigured /\ ~resp.args.listFails) =>
              /\ resp.body.database = "Connected & Working"
              /\ Range(resp.body.collections) =
                    {n \in {"episode", "collection"} :
                        (n = "episode" /\ episode # <<>>) \/ (n = "collection" /\ collection # <<>>)}

C7_Witness ==
    /\ DbConfigured
    /\ resp.op = "test_database" /\ resp.args.listFails
    /\ resp.status = 200
    /\ resp.body.collections = <<>>
    /\ collection # <<>>

Selected(tag, featured, limit) == CursorLimit(Find(episode, ListEpisodesQuery(tag, featured)), limit)

AllDocs == episode \o collection

\* No step removes or rewrites a stored document, a step changes at most one
\* collection, only /seed adds episodes and only POST /collections adds
\* collections, and identifiers stay unique.
StoreFrame ==
    \/ episode' = episode /\ collection' = collection
    \/ /\ IsPrefix(episode, episode') /\ IsPrefix(collection, collection')
       /\ episode' # episode => (collection' = collection /\ resp'.op = "seed_demo")
       /\ collection' # collection => (episode' = episode /\ resp'.op = "create_collection")
       /\ \A i, j \in 1..Len(AllDocs') : AllDocs'[i]["_id"] = AllDocs'[j]["_id"] => i = j

\* The stored collection a raw list endpoint reads.
RawSource == IF resp.op = "list_episodes_raw" THEN episode ELSE collection

\* A raw list returns stored documents, in store order, each with `_id` as
\* the string `id` and every field outside `skip` as stored.
RawFaithful(skip) ==
    (resp.op \in {"list_episodes_raw", "list_collections"} /\ resp.status = 200) =>
        /\ Len(resp.body) <= Len(RawSource)
        /\ \A i \in 1..Len(resp.body) :
              LET r == resp.body[i]
                  d == RawSource[i]
              IN  /\ DOMAIN r = (DOMAIN d \ {"_id"}) \cup {"id"}
                  /\ r["id"] = StrOid(d["_id"])
                  /\ Len(r["id"]) = 24 /\ Range(r["id"]) \subseteq HexLower
                  /\ \A k \in DOMAIN d \ ({"_id"} \cup skip) : r[k] = d[k]

====
